---- MODULE Spec2Model ----
(***************************************************************************)
(* Model of the query-translation and paginated-retrieval core of the      *)
(* bibliographic query scripts: src/src/wos_query.py (query_wos,           *)
(* execute_query_paginated) and src/src/build_query.py (build_search_query,*)
(* convert_query_for_database and its regex helpers).                      *)
(*                                                                         *)
(* Spec      : the retrieval state machine (HTTP attempts, pagination).    *)
(* SpecQuery : the pure string functions applied to bounded inputs.        *)
(***************************************************************************)
EXTENDS Integers, Sequences, FiniteSets, TLC

VARIABLES
    \* ---- query_wos frame
    w_pc,            \* "idle" | "attempt" | "returned" | "raised"
    w_retries,       \* parameter retries
    w_delay,         \* parameter delay (in whole seconds)
    w_first_record,  \* parameter first_record
    w_count,         \* parameter count
    attempt,         \* loop variable of `for attempt in range(retries)`
    w_result,        \* returned value: [isNone, rows]
    trace,           \* HTTP-level events of the current query_wos call
    last_resp,       \* the response handled by the latest request
    \* ---- execute_query_paginated frame
    p_pc,            \* "none" | "loop" | "call" | "done"
    max_records,     \* parameter max_records
    retries,         \* parameter retries
    delay,           \* parameter delay
    first_record,    \* local first_record
    attempts,        \* local attempts
    all_dfs,         \* local all_dfs: sequence of data frames
    p_result,        \* returned value: [isNone, rows]
    p_log,           \* page-level events of the execute_query_paginated call
    \* ---- build_query.py: inputs and results of the string functions
    q_pc,            \* "start" | "built" | "converted" | "cleaned"
    where,           \* build_search_query(where=...)
    what,            \* build_search_query(what=...)
    when,            \* build_search_query(when=...): <<>> or <<start, end>>
    query,           \* the neutral query returned by build_search_query
    database,        \* convert_query_for_database(database=...)
    translated,      \* the string convert_query_for_database returned
    raised,          \* TRUE when convert_query_for_database raised ValueError
    text,            \* the argument of a direct clean_boolean_query call
    cleaned          \* the string clean_boolean_query returned

wosVars == <<w_pc, w_retries, w_delay, w_first_record, w_count, attempt,
             w_result, trace, last_resp>>
pagVars == <<p_pc, max_records, retries, delay, first_record, attempts,
             all_dfs, p_result, p_log>>
queryVars == <<q_pc, where, what, when, query, database, translated, raised,
               text, cleaned>>
vars == <<wosVars, pagVars, queryVars>>

(***************************************************************************)
(* Bounds of the model.                                                    *)
(***************************************************************************)
MaxRetries == 2
MaxTerms == 2

(***************************************************************************)
(* Program constants.                                                      *)
(***************************************************************************)
page_size == 100
DefaultWosRetries == 3
DefaultWosDelay == 1
DefaultWosCount == 3000
HTTP_OK == 200
HTTP_THROTTLE == 429
OtherStatuses == {404, 500}

\* Parameter values the calls are tried with.
RetriesChoices == 0..MaxRetries
DelayChoices == {1, 2}
MaxRecordsChoices == {1, 150, 250}
CountChoices == {page_size, DefaultWosCount}
RecordCounts == {0, 1, 37, page_size}

(***************************************************************************)
(* Values.                                                                 *)
(***************************************************************************)
None == [isNone |-> TRUE, rows |-> <<>>]
DataFrame(rows) == [isNone |-> FALSE, rows |-> rows]

Returned(v) == [kind |-> "return", value |-> v]
Raised == [kind |-> "raise", value |-> None]

(***************************************************************************)
(* HTTP responses.  A body is described by the JSON type found at each     *)
(* level of the path Data.Records.records.REC that query_wos walks.        *)
(***************************************************************************)
Body(json, top, Data, Records, records, REC, n, recs) ==
    [json |-> json, top |-> top, Data |-> Data, Records |-> Records,
     records |-> records, REC |-> REC, n |-> n, recs |-> recs]

NoBody == Body(FALSE, "none", "absent", "absent", "absent", "absent", 0, "ok")

Bodies ==
    {Body(FALSE, "none", "absent", "absent", "absent", "absent", 0, "ok"),
     Body(TRUE, "list", "absent", "absent", "absent", "absent", 0, "ok"),
     Body(TRUE, "dict", "absent", "absent", "absent", "absent", 0, "ok"),
     Body(TRUE, "dict", "null", "absent", "absent", "absent", 0, "ok"),
     Body(TRUE, "dict", "dict", "str", "absent", "absent", 0, "ok"),
     Body(TRUE, "dict", "dict", "dict", "absent", "absent", 0, "ok"),
     Body(TRUE, "dict", "dict", "dict", "empty_str", "absent", 0, "ok"),
     Body(TRUE, "dict", "dict", "dict", "list", "absent", 0, "ok"),
     Body(TRUE, "dict", "dict", "dict", "dict", "absent", 0, "ok"),
     Body(TRUE, "dict", "dict", "dict", "dict", "str", 0, "ok"),
     Body(TRUE, "dict", "dict", "dict", "dict", "dict", 1, "ok"),
     Body(TRUE, "dict", "dict", "dict", "dict", "list", 1, "bad")}
    \cup {Body(TRUE, "dict", "dict", "dict", "dict", "list", n, "ok") :
              n \in RecordCounts}

\* exc = TRUE: requests.get raised a RequestException instead of answering.
Responses ==
    {[exc |-> FALSE, status |-> HTTP_OK, body |-> b] : b \in Bodies}
    \cup {[exc |-> FALSE, status |-> s, body |-> NoBody] :
              s \in {HTTP_THROTTLE} \cup OtherStatuses}
    \cup {[exc |-> TRUE, status |-> 0, body |-> NoBody]}

NoResponse == [exc |-> FALSE, status |-> 0, body |-> NoBody]

(***************************************************************************)
(* query_wos: the body of one `for attempt in range(retries)` iteration.   *)
(***************************************************************************)
\* The rows of the data frame built from `k` records answered to a request
\* for firstRecord = fr: row i is the i-th record of that answer.
Rows(fr, k) == [i \in 1..k |-> <<fr, i>>]

\* Lines 38-89: what a 200 response leads to.  A `.get` on a value that is
\* no dict raises AttributeError, which the RequestException handler of
\* line 99 does not catch.
ParseBody(b, fr) ==
    IF ~b.json THEN Returned(None)                               \* 40-42
    ELSE IF b.top # "dict" THEN Returned(None)                   \* 87-89
    ELSE IF b.Data \notin {"absent", "dict"} THEN Raised         \* 46
    ELSE LET Records == IF b.Data = "absent" THEN "absent" ELSE b.Records
         IN  IF Records \notin {"absent", "dict"} THEN Raised    \* 46
             ELSE LET records == IF Records = "absent" THEN "absent"
                                 ELSE b.records
                  IN  IF records = "dict"
                      THEN CASE b.REC = "absent" -> Returned(DataFrame(<<>>))
                             [] b.REC = "dict" ->
                                  IF b.recs = "ok"
                                  THEN Returned(DataFrame(Rows(fr, 1)))
                                  ELSE Raised
                             [] b.REC = "list" ->
                                  IF b.recs = "ok" \/ b.n = 0
                                  THEN Returned(DataFrame(Rows(fr, b.n)))
                                  ELSE Raised
                             [] OTHER -> Returned(None)          \* 53-55
                      ELSE Returned(None)                        \* 81-86

\* A backoff that forgets that `attempt` counts from 0.
ThrottleSleep_Mutant(d, att) == d * att

\* The sleep of line 93.
ThrottleSleep(d, att) == d * (att + 1)

\* Lines 33-101: one iteration of the retry loop.
WosOutcome(resp, fr) ==
    IF resp.exc THEN Returned(None)                              \* 99-101
    ELSE IF resp.status = HTTP_OK THEN ParseBody(resp.body, fr)
    ELSE IF resp.status = HTTP_THROTTLE THEN [kind |-> "retry", value |-> None]
    ELSE Returned(None)                                          \* 95-97

QueryWosAttempt ==
    /\ w_pc = "attempt"
    /\ attempt < w_retries
    /\ \E resp \in Responses :
         LET out == WosOutcome(resp, w_first_record)
             got == <<<<"GET", w_first_record>>,
                      <<"resp", IF resp.exc THEN 0 ELSE resp.status>>>>
         IN  /\ last_resp' = resp
             /\ CASE out.kind = "retry" ->
                       /\ trace' = trace \o got \o
                              <<<<"sleep", ThrottleSleep(w_delay, attempt)>>>>
                       /\ attempt' = attempt + 1
                       /\ UNCHANGED <<w_pc, w_result>>
                  [] out.kind = "return" ->
                       /\ trace' = trace \o got
                       /\ w_pc' = "returned"
                       /\ w_result' = out.value
                       /\ UNCHANGED attempt
                  [] out.kind = "raise" ->
                       /\ trace' = trace \o got
                       /\ w_pc' = "raised"
                       /\ UNCHANGED <<attempt, w_result>>
    /\ UNCHANGED <<w_retries, w_delay, w_first_record, w_count>>
    /\ UNCHANGED <<pagVars, queryVars>>

\* Line 103: the loop ran out of attempts.
QueryWosExhausted ==
    /\ w_pc = "attempt"
    /\ attempt >= w_retries
    /\ w_pc' = "returned"
    /\ w_result' = None
    /\ UNCHANGED <<w_retries, w_delay, w_first_record, w_count, attempt,
                   trace, last_resp>>
    /\ UNCHANGED <<pagVars, queryVars>>

\* The frame of a query_wos call just entered.
EnterQueryWos(cnt, fr, r, d) ==
    /\ w_pc' = "attempt"
    /\ w_count' = cnt
    /\ w_first_record' = fr
    /\ w_retries' = r
    /\ w_delay' = d
    /\ attempt' = 0
    /\ w_result' = None
    /\ trace' = <<>>
    /\ last_resp' = NoResponse

\* A caller outside this module calls query_wos directly.
CallQueryWos ==
    /\ p_pc = "none"
    /\ w_pc = "idle"
    /\ \E cnt \in CountChoices, fr \in {1, 1 + page_size},
          r \in RetriesChoices \cup {DefaultWosRetries}, d \in DelayChoices :
         EnterQueryWos(cnt, fr, r, d)
    /\ UNCHANGED <<pagVars, queryVars>>

(***************************************************************************)
(* execute_query_paginated (lines 142-179).                                *)
(***************************************************************************)
\* pd.concat(all_dfs, ignore_index=True): the rows of the frames, in order.
RECURSIVE Concat(_)
Concat(dfs) ==
    IF dfs = <<>> THEN <<>> ELSE Head(dfs) \o Concat(Tail(dfs))

\* A return that gives up the accumulated pages.
PagReturn_Mutant(dfs) == None

\* Lines 176-179.
PagReturn(dfs) ==
    IF dfs # <<>> THEN DataFrame(Concat(dfs)) ELSE None

\* An advance that is one record short.
NextFirstRecord_Mutant(fr) == fr + page_size - 1

\* Line 162.
NextFirstRecord(fr) == fr + page_size

\* A ceiling that allows one exception too many.
CeilingReached_Mutant(att, r) == att > r

\* Line 169: the retry ceiling.
CeilingReached(att, r) == att >= r

\* Line 172: 2 ** attempts.
RECURSIVE Pow2(_)
Pow2(n) == IF n = 0 THEN 1 ELSE 2 * Pow2(n - 1)

BackoffSleep(d, att) == d * Pow2(att)

CallExecuteQueryPaginated ==
    /\ p_pc = "none"
    /\ w_pc = "idle"
    /\ \E d \in DelayChoices, m \in MaxRecordsChoices, r \in RetriesChoices :
         /\ delay' = d
         /\ max_records' = m
         /\ retries' = r
    /\ all_dfs' = <<>>
    /\ first_record' = 1
    /\ attempts' = 0
    /\ p_pc' = "loop"
    /\ p_log' = <<>>
    /\ UNCHANGED p_result
    /\ UNCHANGED <<wosVars, queryVars>>

\* Lines 148-151: the loop condition holds and the page is requested.
PagFetch ==
    /\ p_pc = "loop"
    /\ w_pc \in {"idle", "returned", "raised"}
    /\ first_record <= max_records
    /\ EnterQueryWos(page_size, first_record, DefaultWosRetries, DefaultWosDelay)
    /\ p_pc' = "call"
    /\ p_log' = Append(p_log, <<"fetch", first_record>>)
    /\ UNCHANGED <<max_records, retries, delay, first_record, attempts,
                   all_dfs, p_result>>
    /\ UNCHANGED queryVars

\* Line 148 is false: the loop ends, lines 176-179.
PagLimit ==
    /\ p_pc = "loop"
    /\ first_record > max_records
    /\ p_pc' = "done"
    /\ p_result' = PagReturn(all_dfs)
    /\ UNCHANGED <<max_records, retries, delay, first_record, attempts,
                   all_dfs, p_log>>
    /\ UNCHANGED <<wosVars, queryVars>>

\* Lines 153-164: query_wos returned df.
PagPage ==
    /\ p_pc = "call"
    /\ w_pc = "returned"
    /\ LET df == w_result
       IN  IF df.isNone \/ df.rows = <<>>
           THEN /\ p_log' = Append(p_log, <<IF df.isNone THEN "none"
                                            ELSE "df", 0>>)
                /\ p_pc' = "done"
                /\ p_result' = PagReturn(all_dfs)
                /\ UNCHANGED <<all_dfs, first_record, attempts>>
           ELSE /\ all_dfs' = Append(all_dfs, df.rows)
                /\ IF Len(df.rows) < page_size
                   THEN /\ p_log' = Append(p_log, <<"df", Len(df.rows)>>)
                        /\ p_pc' = "done"
                        /\ p_result' = PagReturn(all_dfs')
                        /\ UNCHANGED <<first_record, attempts>>
                   ELSE /\ first_record' = NextFirstRecord(first_record)
                        /\ p_log' = p_log \o <<<<"df", Len(df.rows)>>,
                                               <<"sleep", delay>>>>
                        /\ attempts' = 0
                        /\ p_pc' = "loop"
                        /\ UNCHANGED p_result
    /\ UNCHANGED <<max_records, retries, delay>>
    /\ UNCHANGED <<wosVars, queryVars>>

\* Lines 166-174: query_wos raised.
PagException ==
    /\ p_pc = "call"
    /\ w_pc = "raised"
    /\ attempts' = attempts + 1
    /\ IF CeilingReached(attempts', retries)
       THEN /\ p_log' = Append(p_log, <<"raise", attempts'>>)
            /\ p_pc' = "done"
            /\ p_result' = PagReturn(all_dfs)
       ELSE /\ p_log' = p_log \o <<<<"raise", attempts'>>,
                                   <<"sleep", BackoffSleep(delay, attempts')>>>>
            /\ p_pc' = "loop"
            /\ UNCHANGED p_result
    /\ UNCHANGED <<max_records, retries, delay, first_record, all_dfs>>
    /\ UNCHANGED <<wosVars, queryVars>>

(***************************************************************************)
(* build_query.py.  A string is a sequence of one-character strings.       *)
(***************************************************************************)
UpperLetters ==
    <<"A", "B", "C", "D", "E", "F", "G", "H", "I", "J", "K", "L", "M", "N",
      "O", "P", "Q", "R", "S", "T", "U", "V", "W", "X", "Y", "Z">>
LowerLetters ==
    <<"a", "b", "c", "d", "e", "f", "g", "h", "i", "j", "k", "l", "m", "n",
      "o", "p", "q", "r", "s", "t", "u", "v", "w", "x", "y", "z">>
Digits ==
    <<"0", "1", "2", "3", "4", "5", "6", "7", "8", "9">>

Range(f) == {f[i] : i \in DOMAIN f}

\* \d, \w and whitespace of Python's re and str.strip.
IsDigit(c) == c \in Range(Digits)
IsWordChar(c) ==
    c \in Range(UpperLetters) \cup Range(LowerLetters) \cup Range(Digits)
          \cup {"_"}
IsSpace(c) == c \in {" ", "\t", "\n"}

\* str.lower().
LowerChar(c) ==
    IF c \in Range(UpperLetters)
    THEN LowerLetters[CHOOSE i \in DOMAIN UpperLetters : UpperLetters[i] = c]
    ELSE c
Lower(s) == [i \in 1..Len(s) |-> LowerChar(s[i])]

\* str.strip().
RECURSIVE LStrip(_)
LStrip(s) ==
    IF s # <<>> /\ IsSpace(Head(s)) THEN LStrip(Tail(s)) ELSE s
RECURSIVE RStrip(_)
RStrip(s) ==
    IF s # <<>> /\ IsSpace(s[Len(s)])
    THEN RStrip(SubSeq(s, 1, Len(s) - 1)) ELSE s
Strip(s) == RStrip(LStrip(s))

\* s[i:] starts with lit.
StartsWithAt(s, i, lit) ==
    /\ i + Len(lit) - 1 <= Len(s)
    /\ SubSeq(s, i, i + Len(lit) - 1) = lit

\* s[i:].
From(s, i) == SubSeq(s, i, Len(s))

\* lit in s.
Contains(s, lit) == \E i \in 1..Len(s) : StartsWithAt(s, i, lit)

\* str.replace(old, new): every non-overlapping occurrence, left to right.
RECURSIVE Replace(_, _, _)
Replace(s, old, new) ==
    IF s = <<>> THEN <<>>
    ELSE IF StartsWithAt(s, 1, old)
         THEN new \o Replace(From(s, Len(old) + 1), old, new)
         ELSE <<Head(s)>> \o Replace(Tail(s), old, new)

\* sep.join(parts).
RECURSIVE Join(_, _)
Join(parts, sep) ==
    IF parts = <<>> THEN <<>>
    ELSE IF Len(parts) = 1 THEN parts[1]
    ELSE parts[1] \o sep \o Join(Tail(parts), sep)

\* str(n) of a non-negative int, as an f-string formats it.
RECURSIVE IntToStr(_)
IntToStr(n) ==
    IF n < 10 THEN <<Digits[n + 1]>>
    ELSE IntToStr(n \div 10) \o <<Digits[(n % 10) + 1]>>

\* The index just past the longest run of digits that starts at s[i].
RECURSIVE DigitsEnd(_, _)
DigitsEnd(s, i) ==
    IF i <= Len(s) /\ IsDigit(s[i]) THEN DigitsEnd(s, i + 1) ELSE i

\* String literals of build_query.py.
S_AND == <<" ", "A", "N", "D", " ">>
S_OR == <<" ", "O", "R", " ">>
S_SPACE == <<" ">>
S_QUOTE == <<"\"">>
S_LPAREN == <<"(">>
S_RPAREN == <<")">>
S_PUBYEAR == <<"P", "U", "B", "Y", "E", "A", "R", " ">>
S_AFT == <<"A", "F", "T", " ">>
S_BEF == <<"B", "E", "F", " ">>
S_EQ == <<"=">>
S_PUBYEAR_AFT == <<"P", "U", "B", "Y", "E", "A", "R", " ", "A", "F", "T", " ">>
S_AND_PUBYEAR_BEF == <<" ", "A", "N", "D", " ", "P", "U", "B", "Y", "E", "A", "R", " ", "B",
      "E", "F", " ">>
S_AND_PUBYEAR == <<" ", "A", "N", "D", " ", "P", "U", "B", "Y", "E", "A", "R", " ">>
S_TS == <<"T", "S", "=", "(">>
S_PY == <<"P", "Y", "=">>
S_DASH == <<"-">>
S_AND_PUBYEAR_GT == <<"A", "N", "D", " ", "P", "U", "B", "Y", "E", "A", "R", " ", ">", " ">>
S_AND_PUBYEAR_LT == <<" ", "A", "N", "D", " ", "P", "U", "B", "Y", "E", "A", "R", " ", "<",
      " ">>
S_GOOGLE_SCHOLAR ==
    <<"g", "o", "o", "g", "l", "e", "_", "s", "c", "h", "o", "l", "a", "r">>
S_WOS == <<"w", "o", "s">>
S_SCOPUS == <<"s", "c", "o", "p", "u", "s">>

(***************************************************************************)
(* build_search_query (lines 5-39).                                        *)
(***************************************************************************)
\* A term that is always quoted.
add_quotes_Mutant(term) == S_QUOTE \o term \o S_QUOTE

\* Lines 18-22.
add_quotes(term) ==
    IF Contains(term, <<"*">>) THEN term ELSE S_QUOTE \o term \o S_QUOTE

\* Lines 24-25.
format_terms(terms) == [i \in 1..Len(terms) |-> add_quotes(terms[i])]

\* Lines 27-28.
or_clause(terms) ==
    IF terms # <<>>
    THEN S_LPAREN \o Join(format_terms(terms), S_OR) \o S_RPAREN
    ELSE <<>>

\* Lines 30-34.
when_clause(w) ==
    IF w # <<>>
    THEN S_PUBYEAR_AFT \o IntToStr(w[1]) \o S_AND_PUBYEAR_BEF
             \o IntToStr(w[2])
    ELSE <<>>

\* Lines 36-37.
combined_query(wh, wt) ==
    Join(SelectSeq(<<or_clause(wh), or_clause(wt)>>, LAMBDA c : c # <<>>),
         S_AND)

\* Line 39.
build_search_query(wh, wt, w) ==
    Strip(combined_query(wh, wt)) \o S_SPACE \o when_clause(w)

(***************************************************************************)
(* The regular expressions of build_query.py.                              *)
(***************************************************************************)
\* \b at index i: exactly one of s[i-1], s[i] is a word character.
WordBoundary(s, i) ==
    (i > 1 /\ IsWordChar(s[i - 1])) # (i <= Len(s) /\ IsWordChar(s[i]))

\* lit followed by \d+ at s[i]: the index past the match, 0 for no match.
LitDigitsEnd(s, i, lit) ==
    IF StartsWithAt(s, i, lit) /\ DigitsEnd(s, i + Len(lit)) > i + Len(lit)
    THEN DigitsEnd(s, i + Len(lit))
    ELSE 0

\* (AFT \d+|BEF \d+|=\d+) at s[i]: the index past the match, 0 for none.
YearTermEnd(s, i) ==
    IF LitDigitsEnd(s, i, S_AFT) # 0 THEN LitDigitsEnd(s, i, S_AFT)
    ELSE IF LitDigitsEnd(s, i, S_BEF) # 0 THEN LitDigitsEnd(s, i, S_BEF)
    ELSE LitDigitsEnd(s, i, S_EQ)

\* The pattern of line 95 at s[i]: the index past the match, 0 for none.
\* The optional second half is tried first; when it or the closing \b
\* fails the match falls back to the first half alone.
YearClauseEnd(s, i) ==
    IF ~WordBoundary(s, i) \/ ~StartsWithAt(s, i, S_PUBYEAR) THEN 0
    ELSE LET j == YearTermEnd(s, i + Len(S_PUBYEAR))
         IN  IF j = 0 THEN 0
             ELSE LET k == IF StartsWithAt(s, j, S_AND_PUBYEAR)
                           THEN YearTermEnd(s, j + Len(S_AND_PUBYEAR))
                           ELSE 0
                  IN  IF k # 0 /\ WordBoundary(s, k) THEN k
                      ELSE IF WordBoundary(s, j) THEN j
                      ELSE 0

\* re.sub(pattern, '', query) of line 96, scanning from s[i].
RECURSIVE RemoveYearClauses(_, _)
RemoveYearClauses(s, i) ==
    IF i > Len(s) THEN <<>>
    ELSE IF YearClauseEnd(s, i) # 0
         THEN RemoveYearClauses(s, YearClauseEnd(s, i))
         ELSE <<s[i]>> \o RemoveYearClauses(s, i + 1)

\* A removal that stops after the first match (re.sub with count=1).
remove_year_clause_Mutant(q) ==
    LET hits == {i \in 1..Len(q) : YearClauseEnd(q, i) # 0}
    IN  IF hits = {} THEN Strip(q)
        ELSE LET i == CHOOSE x \in hits : \A y \in hits : x <= y
             IN  Strip(SubSeq(q, 1, i - 1) \o From(q, YearClauseEnd(q, i)))

\* Lines 85-96.
remove_year_clause(q) == Strip(RemoveYearClauses(q, 1))

\* The pattern of lines 122 and 155 at s[i]: the index past the match (0
\* for none) and the two groups.
NoYearPair == [end |-> 0, start_year |-> <<>>, end_year |-> <<>>]
YearPairAt(s, i) ==
    LET a == i + Len(S_PUBYEAR_AFT)
        b == DigitsEnd(s, a)
        c == b + Len(S_AND_PUBYEAR_BEF)
        d == DigitsEnd(s, c)
    IN  IF /\ StartsWithAt(s, i, S_PUBYEAR_AFT)
           /\ b > a
           /\ StartsWithAt(s, b, S_AND_PUBYEAR_BEF)
           /\ d > c
        THEN [end |-> d, start_year |-> SubSeq(s, a, b - 1),
              end_year |-> SubSeq(s, c, d - 1)]
        ELSE NoYearPair

\* re.search(pattern, query): the leftmost match.
SearchYearPair(s) ==
    LET hits == {i \in 1..Len(s) : YearPairAt(s, i).end # 0}
    IN  IF hits = {} THEN NoYearPair
        ELSE YearPairAt(s, CHOOSE x \in hits : \A y \in hits : x <= y)

\* Python's None and str as one kind of value.
NoneStr == [isNone |-> TRUE, str |-> <<>>]
Str(s) == [isNone |-> FALSE, str |-> s]
Truthy(v) == ~v.isNone /\ v.str # <<>>

\* Lines 111-127.
extract_year_query_wos(q) ==
    LET m == SearchYearPair(q)
    IN  IF m.end # 0
        THEN Str(S_PY \o m.start_year \o S_DASH \o m.end_year)
        ELSE NoneStr

\* `$`: the end of the string, or just before a newline that ends it.
AtEnd(s, j) == j = Len(s) + 1 \/ (j = Len(s) /\ s[j] = "\n")

\* ( AND | OR )+$ at s[i]: the index past the match, 0 for none.
RECURSIVE OperatorsEnd(_, _)
OperatorsEnd(s, i) ==
    LET j == IF StartsWithAt(s, i, S_AND) THEN i + Len(S_AND)
             ELSE IF StartsWithAt(s, i, S_OR) THEN i + Len(S_OR)
             ELSE 0
    IN  IF j = 0 THEN 0
        ELSE IF OperatorsEnd(s, j) # 0 THEN OperatorsEnd(s, j)
        ELSE IF AtEnd(s, j) THEN j
        ELSE 0

\* re.sub(r'( AND | OR )+$', '', query) of line 141.
SubTrailingOperators(s) ==
    LET hits == {i \in 1..Len(s) : OperatorsEnd(s, i) # 0}
    IN  IF hits = {} THEN s
        ELSE LET i == CHOOSE x \in hits : \A y \in hits : x <= y
             IN  SubSeq(s, 1, i - 1) \o From(s, OperatorsEnd(s, i))

\* Lines 129-142.
clean_boolean_query(q) == SubTrailingOperators(Strip(q))

\* Lines 98-109.
extract_term_query(q) ==
    clean_boolean_query(S_TS \o remove_year_clause(q) \o S_RPAREN)

\* re.sub(pattern, year_clause, query) of line 160, scanning from s[i].
RECURSIVE SubYearPairs(_, _, _)
SubYearPairs(s, i, year_clause) ==
    IF i > Len(s) THEN <<>>
    ELSE IF YearPairAt(s, i).end # 0
         THEN year_clause \o SubYearPairs(s, YearPairAt(s, i).end, year_clause)
         ELSE <<s[i]>> \o SubYearPairs(s, i + 1, year_clause)

\* A rewrite that swaps the two years.
replace_years_with_scopus_format_Mutant(q) ==
    LET m == SearchYearPair(q)
    IN  IF m.end # 0
        THEN SubYearPairs(q, 1, S_AND_PUBYEAR_GT \o m.end_year
                                    \o S_AND_PUBYEAR_LT \o m.start_year)
        ELSE q

\* Lines 144-161.
replace_years_with_scopus_format(q) ==
    LET m == SearchYearPair(q)
    IN  IF m.end # 0
        THEN SubYearPairs(q, 1, S_AND_PUBYEAR_GT \o m.start_year
                                    \o S_AND_PUBYEAR_LT \o m.end_year)
        ELSE q

(***************************************************************************)
(* convert_query_for_database (lines 43-83).                               *)
(***************************************************************************)
Result(s) == [raised |-> FALSE, value |-> s]
ValueError == [raised |-> TRUE, value |-> <<>>]

\* Lines 54-57.
ScholarQuery(q) ==
    Strip(remove_year_clause(Replace(Replace(q, S_AND, S_SPACE),
                                     S_OR, S_SPACE)))

\* Lines 59-75.
WosQuery(q) ==
    LET term0 == extract_term_query(q)
        year0 == extract_year_query_wos(q)
        term_query == IF term0 # <<>> THEN clean_boolean_query(term0)
                      ELSE <<>>
        year_query == IF Truthy(year0) THEN clean_boolean_query(year0.str)
                      ELSE <<>>
        wos_query == IF term_query # <<>> /\ year_query # <<>>
                     THEN term_query \o S_AND \o year_query
                     ELSE IF term_query # <<>> THEN term_query
                     ELSE IF year_query # <<>> THEN year_query
                     ELSE <<>>
    IN  clean_boolean_query(wos_query)

\* Lines 77-80.
ScopusQuery(q) == replace_years_with_scopus_format(q)

\* A dispatch that compares the identifier as written.
convert_query_for_database_Mutant(q, db) ==
    IF db = S_GOOGLE_SCHOLAR THEN Result(ScholarQuery(q))
    ELSE IF db = S_WOS THEN Result(WosQuery(q))
    ELSE IF db = S_SCOPUS THEN Result(ScopusQuery(q))
    ELSE ValueError

convert_query_for_database(q, db) ==
    IF Lower(db) = S_GOOGLE_SCHOLAR THEN Result(ScholarQuery(q))
    ELSE IF Lower(db) = S_WOS THEN Result(WosQuery(q))
    ELSE IF Lower(db) = S_SCOPUS THEN Result(ScopusQuery(q))
    ELSE ValueError

(***************************************************************************)
(* The inputs the string functions are applied to.                         *)
(***************************************************************************)
WhereTerms ==
    {<<"D", "u", "b", "l", "i", "n">>,
     <<"C", "o", "r", "k", "*">>}
WhatTerms ==
    {<<"u", "r", "b", "a", "n">>,
     <<"c", "i", "t", "*">>,
     <<"R", " ", "A", "N", "D", " ", "D">>}
WhereLists == UNION {[1..n -> WhereTerms] : n \in 0..MaxTerms}
WhatLists == UNION {[1..n -> WhatTerms] : n \in 0..MaxTerms}
WhenChoices == {<<>>, <<2018, 2022>>, <<990, 1500>>}
Databases ==
    {<<"w", "o", "s">>, <<"W", "O", "S">>, <<"W", "o", "S">>,
     <<"s", "c", "o", "p", "u", "s">>,
     <<"S", "c", "o", "p", "u", "s">>,
     <<"g", "o", "o", "g", "l", "e", "_", "s", "c", "h", "o", "l", "a",
       "r">>,
     <<"G", "O", "O", "G", "L", "E", "_", "S", "C", "H", "O", "L", "A",
       "R">>,
     <<"s", "c", "h", "o", "l", "a", "r">>,
     <<"u", "n", "k", "n", "o", "w", "n">>,
     <<>>}
Texts ==
    {<<"c", "a", "t", "s", " ", "A", "N", "D", " ">>,
     <<"c", "a", "t", "s", " ", "O", "R">>,
     <<"c", "a", "t", "s">>,
     <<" ", "A", "N", "D", " ">>,
     <<"a", " ", "A", "N", "D", " ", " ", "O", "R", " ">>,
     <<"L", "A", "N", "D">>,
     <<"x", " ", "A", "N", "D", " ", "O", "R">>,
     <<"a", " ", "A", "N", "D", " ", "\n">>}

(***************************************************************************)
(* The calls of the string functions.                                      *)
(***************************************************************************)
BuildSearchQuery ==
    /\ q_pc = "start"
    /\ \E wh \in WhereLists, wt \in WhatLists, w \in WhenChoices :
         /\ where' = wh
         /\ what' = wt
         /\ when' = w
         /\ query' = build_search_query(wh, wt, w)
    /\ q_pc' = "built"
    /\ UNCHANGED <<database, translated, raised, text, cleaned>>
    /\ UNCHANGED <<wosVars, pagVars>>

ConvertQueryForDatabase ==
    /\ q_pc = "built"
    /\ \E db \in Databases :
         LET r == convert_query_for_database(query, db)
         IN  /\ database' = db
             /\ raised' = r.raised
             /\ translated' = r.value
    /\ q_pc' = "converted"
    /\ UNCHANGED <<where, what, when, query, text, cleaned>>
    /\ UNCHANGED <<wosVars, pagVars>>

CleanBooleanQuery ==
    /\ q_pc = "start"
    /\ \E t \in Texts :
         /\ text' = t
         /\ cleaned' = clean_boolean_query(t)
    /\ q_pc' = "cleaned"
    /\ UNCHANGED <<where, what, when, query, database, translated, raised>>
    /\ UNCHANGED <<wosVars, pagVars>>

NextQuery ==
    \/ BuildSearchQuery
    \/ ConvertQueryForDatabase
    \/ CleanBooleanQuery

(***************************************************************************)
(* The retrieval specification.                                            *)
(***************************************************************************)
QueryIdle ==
    /\ q_pc = "start"
    /\ where = <<>>
    /\ what = <<>>
    /\ when = <<>>
    /\ query = <<>>
    /\ database = <<>>
    /\ translated = <<>>
    /\ raised = FALSE
    /\ text = <<>>
    /\ cleaned = <<>>

RetrievalIdle ==
    /\ w_pc = "idle"
    /\ w_retries = 0
    /\ w_delay = 0
    /\ w_first_record = 0
    /\ w_count = 0
    /\ attempt = 0
    /\ w_result = None
    /\ trace = <<>>
    /\ last_resp = NoResponse
    /\ p_pc = "none"
    /\ max_records = 0
    /\ retries = 0
    /\ delay = 0
    /\ first_record = 0
    /\ attempts = 0
    /\ all_dfs = <<>>
    /\ p_result = None
    /\ p_log = <<>>

Init == RetrievalIdle /\ QueryIdle

Next ==
    \/ CallQueryWos
    \/ QueryWosAttempt
    \/ QueryWosExhausted
    \/ CallExecuteQueryPaginated
    \/ PagFetch
    \/ PagLimit
    \/ PagPage
    \/ PagException

Spec == Init /\ [][Next]_vars

SpecQuery == Init /\ [][NextQuery]_vars

\* The calls run on one thread that keeps running: a sleep or a request
\* ends, and the statement after it is executed.
SpecFair == Spec /\ WF_vars(Next)

(***************************************************************************)
(* Reading the event logs.                                                 *)
(***************************************************************************)
IsResult(e) == e[1] \in {"df", "none", "raise"}
IsFetch(e) == e[1] = "fetch"
IsPage(e) == e[1] = "df" /\ e[2] > 0
IsGet(e) == e[1] = "GET"
IsResp(e) == e[1] = "resp"

\* The outcomes of the page fetches so far, and the requests they answer.
PageResults == SelectSeq(p_log, IsResult)
PageFetches == SelectSeq(p_log, IsFetch)
\* The statuses answered in the current query_wos call.
Statuses == SelectSeq(trace, IsResp)
GetsUpTo(i) == Len(SelectSeq(SubSeq(trace, 1, i), IsGet))

\* The number of rows of the successful pages among the first i results.
RECURSIVE RowsBefore(_, _)
RowsBefore(res, i) ==
    IF i = 0 THEN 0
    ELSE RowsBefore(res, i - 1) + (IF IsPage(res[i]) THEN res[i][2] ELSE 0)

\* The number of raise results that end the sequence res.
RECURSIVE TrailingRaises(_)
TrailingRaises(res) ==
    IF res = <<>> \/ res[Len(res)][1] # "raise" THEN 0
    ELSE 1 + TrailingRaises(SubSeq(res, 1, Len(res) - 1))

\* k full pages followed by one short, non-empty page.
FullThenShort(res) ==
    /\ Len(res) >= 1
    /\ \A i \in 1..(Len(res) - 1) : res[i] = <<"df", page_size>>
    /\ res[Len(res)][1] = "df"
    /\ res[Len(res)][2] > 0
    /\ res[Len(res)][2] < page_size

\* C1: when the page fetches answered k full pages and then one short,
\* non-empty page, the requests were firstRecord = 1, 1 + page_size, ... in
\* that order, the call has returned the rows of those k + 1 pages in fetch
\* order, and nothing was requested after the short page.
C1_FullPagesThenShortPage ==
    LET res == PageResults
        req == PageFetches
        k == Len(res) - 1
    IN  FullThenShort(res) =>
          LET total == k * page_size + res[k + 1][2]
          IN  /\ req = [i \in 1..(k + 1) |->
                            <<"fetch", 1 + (i - 1) * page_size>>]
              /\ p_pc = "done"
              /\ ~p_result.isNone
              /\ p_result.rows =
                   [j \in 1..total |->
                        <<((j - 1) \div page_size) * page_size + 1,
                          ((j - 1) % page_size) + 1>>]
              /\ p_log[Len(p_log)] = res[k + 1]

C1_Witness ==
    /\ p_pc = "done"
    /\ PageResults = <<<<"df", page_size>>, <<"df", page_size>>, <<"df", 37>>>>
    /\ Len(p_result.rows) = 237

\* C2: when exceptions follow one another up to the retry ceiling the call
\* stops, and returns the rows of every page that succeeded before, in order
\* (None exactly when no page succeeded); in every state all_dfs holds every
\* successful page fetched so far, so a later failure discards none.
C2_PartialResultsKept ==
    LET res == PageResults
        req == PageFetches
        t == TrailingRaises(res)
        ok == {i \in 1..Len(res) : IsPage(res[i])}
    IN  /\ (t >= 1 /\ t >= retries) => p_pc = "done"
        /\ (t >= 1 /\ p_pc # "done") => t < retries
        /\ Len(all_dfs) = Cardinality(ok)
        /\ Len(Concat(all_dfs)) = RowsBefore(res, Len(res))
        /\ \A i \in ok : \A j \in 1..res[i][2] :
              Concat(all_dfs)[RowsBefore(res, i - 1) + j] = <<req[i][2], j>>
        /\ (p_pc = "done" /\ t >= 1) =>
              /\ p_result.isNone <=> (ok = {})
              /\ p_result.rows = Concat(all_dfs)

C2_Witness ==
    /\ p_pc = "done"
    /\ retries >= 2
    /\ TrailingRaises(PageResults) = retries
    /\ Len(p_result.rows) = page_size
    /\ ~p_result.isNone

\* A page result that ends the pagination when it is received: None, an
\* empty frame, or a frame shorter than page_size.
IsLastPage(e) == e[1] = "none" \/ (e[1] = "df" /\ e[2] < page_size)

\* What holds of execute_query_paginated in every state.
C11_ExitPoints ==
    LET res == PageResults
        req == PageFetches
        t == TrailingRaises(res)
    IN  /\ \A i \in 1..Len(req) : req[i][2] <= max_records
        /\ \A i \in 1..Len(res) :
              IsLastPage(res[i]) =>
                 i = Len(res) /\ i = Len(req) /\ p_pc = "done"
        /\ t <= (IF retries >= 1 THEN retries ELSE 1)
        /\ \A i \in (Len(res) - t + 1)..Len(res) :
              req[i][2] = req[Len(res)][2]
        /\ p_pc = "done" =>
              \/ Len(res) >= 1 /\ IsLastPage(res[Len(res)])
              \/ first_record > max_records
              \/ t >= 1 /\ t >= retries

\* C11: execute_query_paginated, once called, returns; it stops at the
\* first None or empty page without asking for it again, at the first
\* short page, once first_record exceeds max_records, or after `retries`
\* consecutive exceptions on one page (one exception when retries is 0),
\* and it never requests a page whose firstRecord exceeds max_records.
C11_PaginationReturns ==
    /\ []C11_ExitPoints
    /\ (p_pc \in {"loop", "call"}) ~> (p_pc = "done")

C11_Witness ==
    /\ p_pc = "done"
    /\ first_record > max_records
    /\ Len(PageFetches) = 3
    /\ Len(p_result.rows) = 3 * page_size

\* C12: the result of execute_query_paginated holds at most max_records
\* records.
C12_AtMostMaxRecords ==
    (p_pc = "done" /\ ~p_result.isNone) =>
        Len(p_result.rows) <= max_records

\* What does hold: at most max_records rounded up to whole pages.
C12_AtMostWholePages ==
    (p_pc = "done" /\ ~p_result.isNone) =>
        Len(p_result.rows) <=
            ((max_records + page_size - 1) \div page_size) * page_size

\* One well-formed record in a 200 response.
CarriesOneRecord(resp) ==
    /\ ~resp.exc
    /\ resp.status = HTTP_OK
    /\ resp.body.json
    /\ resp.body.top = "dict"
    /\ resp.body.Data = "dict"
    /\ resp.body.Records = "dict"
    /\ resp.body.records = "dict"
    /\ resp.body.recs = "ok"
    /\ \/ resp.body.REC = "dict"
       \/ resp.body.REC = "list" /\ resp.body.n = 1

\* C3: in query_wos the n-th request answered 429 is followed by a sleep
\* of delay * n and, while n < retries, by another request; no more than
\* `retries` requests are made; a 429 followed by a 200 with one record
\* returns that record, the sleep coming before the successful request;
\* 429 on every attempt returns None and never raises.
C3_ThrottleBackoff ==
    LET st == Statuses
        throttled == \A i \in 1..Len(st) : st[i][2] = HTTP_THROTTLE
    IN  /\ \A i \in 1..Len(trace) :
              trace[i] = <<"resp", HTTP_THROTTLE>> =>
                 LET n == GetsUpTo(i)
                 IN  /\ i < Len(trace)
                     /\ trace[i + 1] = <<"sleep", w_delay * n>>
                     /\ IF i + 1 < Len(trace)
                        THEN n < w_retries /\ IsGet(trace[i + 2])
                        ELSE IF n < w_retries THEN w_pc = "attempt"
                        ELSE w_pc = "attempt" \/ (w_pc = "returned" /\ w_result.isNone)
        /\ Len(st) <= w_retries
        /\ throttled => w_pc # "raised"
        /\ (throttled /\ w_pc = "returned") =>
              w_result.isNone /\ Len(st) = w_retries
        /\ (/\ Len(st) = 2
            /\ st[1][2] = HTTP_THROTTLE
            /\ CarriesOneRecord(last_resp)) =>
              /\ w_pc = "returned"
              /\ w_result = DataFrame(<<<<w_first_record, 1>>>>)
              /\ trace = << <<"GET", w_first_record>>, <<"resp", HTTP_THROTTLE>>,
                            <<"sleep", w_delay>>,
                            <<"GET", w_first_record>>, <<"resp", HTTP_OK>> >>

C3_Witness ==
    /\ p_pc = "none"
    /\ w_pc = "returned"
    /\ w_delay = 2
    /\ Len(Statuses) = 2
    /\ Statuses[1][2] = HTTP_THROTTLE
    /\ CarriesOneRecord(last_resp)
    /\ Len(w_result.rows) = 1
    /\ trace[3] = <<"sleep", 2>>

\* A response that is a failure: a transport error, a status other than 200
\* and 429, or a 200 whose body is not JSON, is wrongly shaped or holds the
\* empty string as its records container.
IsFailure(resp) ==
    \/ resp.exc
    \/ resp.status \notin {HTTP_OK, HTTP_THROTTLE}
    \/ /\ resp.status = HTTP_OK
       /\ \/ ~resp.body.json
          \/ resp.body.top # "dict"
          \/ resp.body.Data # "dict"
          \/ resp.body.Records # "dict"
          \/ resp.body.records # "dict"
          \/ resp.body.REC \notin {"dict", "list", "absent"}
          \/ resp.body.recs # "ok"

\* C4: within one query_wos call an answer other than 429 ends the call at
\* once, with no further request and no sleep, and every failure returns
\* None.
C4_OnlyThrottleRetried ==
    \A i \in 1..Len(trace) :
       (IsResp(trace[i]) /\ trace[i][2] # HTTP_THROTTLE) =>
          /\ i = Len(trace)
          /\ w_pc = "returned"
          /\ IsFailure(last_resp) => w_result.isNone

\* The part of C4 about requests and sleeps alone.
C4_NoRequestAfterOtherAnswer ==
    \A i \in 1..Len(trace) :
       (IsResp(trace[i]) /\ trace[i][2] # HTTP_THROTTLE) =>
          i = Len(trace) /\ w_pc \in {"returned", "raised"}

(***************************************************************************)
(* Properties of the string functions, under SpecQuery.                    *)
(***************************************************************************)
W_AND == <<"A", "N", "D">>
W_OR == <<"O", "R">>
W_PUBYEAR == <<"P", "U", "B", "Y", "E", "A", "R">>
W_PUBYEAR_GT == <<"P", "U", "B", "Y", "E", "A", "R", " ", ">", " ">>
W_PY_2018_2022 ==
    <<"P", "Y", "=", "2", "0", "1", "8", "-", "2", "0", "2", "2">>

\* The word w stands in s as a token of its own.
HasToken(s, w) ==
    \E i \in 1..Len(s) :
       /\ StartsWithAt(s, i, w)
       /\ i = 1 \/ ~IsWordChar(s[i - 1])
       /\ i + Len(w) > Len(s) \/ ~IsWordChar(s[i + Len(w)])

\* s ends, trailing whitespace aside, in the token w.
EndsWithToken(s, w) ==
    \E n \in 1..Len(s) :
       /\ \A k \in (n + 1)..Len(s) : IsSpace(s[k])
       /\ n >= Len(w)
       /\ SubSeq(s, n - Len(w) + 1, n) = w
       /\ n = Len(w) \/ IsSpace(s[n - Len(w)])

DanglingOperator(s) == EndsWithToken(s, W_AND) \/ EndsWithToken(s, W_OR)

Converted(id) == q_pc = "converted" /\ ~raised /\ Lower(database) = id

\* The neutral query up to its year clause, and the two years as text.
TermPrefix == SubSeq(query, 1, Len(query) - Len(when_clause(when)))
StartYear == IntToStr(when[1])
EndYear == IntToStr(when[2])

\* C5: clean_boolean_query never returns a string that ends in a dangling
\* AND or OR, and no Web of Science translation ends in one.
C5_NoDanglingOperator ==
    /\ q_pc = "cleaned" => ~DanglingOperator(cleaned)
    /\ Converted(S_WOS) => ~DanglingOperator(translated)

\* The part of C5 about the Web of Science translation alone.
C5_WosTranslationNotDangling ==
    Converted(S_WOS) => ~DanglingOperator(translated)

\* C6: the Web of Science translation is TS=(terms) AND PY=start-end when
\* the query has terms and years, the TS clause alone when it has terms
\* only, the PY clause alone when it has years only, and empty when it has
\* neither; with the years (2018, 2022) it contains PY=2018-2022.
C6_WosHalvesJoined ==
    Converted(S_WOS) =>
       LET terms == where # <<>> \/ what # <<>>
           years == when # <<>>
           TS == S_TS \o Strip(TermPrefix) \o S_RPAREN
           PY == S_PY \o StartYear \o S_DASH \o EndYear
       IN  /\ translated =
                IF terms /\ years THEN TS \o S_AND \o PY
                ELSE IF terms THEN TS
                ELSE IF years THEN PY
                ELSE <<>>
           /\ when = <<2018, 2022>> => Contains(translated, W_PY_2018_2022)

SameIgnoringCase(a, b) ==
    /\ Len(a) = Len(b)
    /\ \A i \in 1..Len(a) :
          \/ a[i] = b[i]
          \/ \E k \in DOMAIN UpperLetters :
                {a[i], b[i]} = {UpperLetters[k], LowerLetters[k]}

Recognized(db) ==
    \E id \in {S_GOOGLE_SCHOLAR, S_WOS, S_SCOPUS} : SameIgnoringCase(db, id)

\* C9: convert_query_for_database raises, and returns no query, exactly
\* when the database is none of the three identifiers in any letter case.
C9_UnsupportedDatabase ==
    q_pc = "converted" =>
       /\ raised <=> ~Recognized(database)
       /\ raised => translated = <<>>

C9_Witness ==
    /\ q_pc = "converted"
    /\ ~raised
    /\ database \notin {S_GOOGLE_SCHOLAR, S_WOS, S_SCOPUS}
    /\ where # <<>>
    /\ translated # <<>>

\* The length of a term as the clause shows it, and where the i-th term
\* of a clause starts.
HasStar(t) == \E i \in 1..Len(t) : t[i] = "*"
ShownLen(t) == IF HasStar(t) THEN Len(t) ELSE Len(t) + 2
RECURSIVE TermOffset(_, _)
TermOffset(terms, i) ==
    IF i = 1 THEN 2
    ELSE TermOffset(terms, i - 1) + ShownLen(terms[i - 1]) + Len(S_OR)
ClauseLen(terms) ==
    IF terms = <<>> THEN 0
    ELSE TermOffset(terms, Len(terms)) + ShownLen(terms[Len(terms)])

\* c is ( t1 OR t2 OR ... ) for the terms, each quoted unless it has a *.
IsOrClause(c, terms) ==
    /\ Len(c) = ClauseLen(terms)
    /\ c[1] = "("
    /\ c[Len(c)] = ")"
    /\ \A i \in 1..Len(terms) :
          LET o == TermOffset(terms, i)
              t == terms[i]
          IN  /\ IF HasStar(t)
                 THEN SubSeq(c, o, o + Len(t) - 1) = t
                 ELSE /\ c[o] = "\""
                      /\ SubSeq(c, o + 1, o + Len(t)) = t
                      /\ c[o + Len(t) + 1] = "\""
              /\ i < Len(terms) =>
                    SubSeq(c, o + ShownLen(t), o + ShownLen(t) + 3) = S_OR

\* C10: build_search_query shows every term of a non-empty list in its
\* parenthesized OR-clause in input order, unquoted exactly when it holds
\* a *, joins the two clauses with AND only when both lists are non-empty,
\* and leaves the combined clause empty when both are empty.
C10_BuildClauses ==
    q_pc = "built" =>
       LET lw == ClauseLen(where)
           lt == ClauseLen(what)
           both == where # <<>> /\ what # <<>>
           sep == IF both THEN Len(S_AND) ELSE 0
           total == lw + sep + lt
       IN  /\ Len(query) = total + 1 + Len(when_clause(when))
           /\ query[total + 1] = " "
           /\ where # <<>> => IsOrClause(SubSeq(query, 1, lw), where)
           /\ what # <<>> =>
                 IsOrClause(SubSeq(query, lw + sep + 1, total), what)
           /\ both => SubSeq(query, lw + 1, lw + sep) = S_AND
           /\ (where = <<>> /\ what = <<>>) => total = 0

C10_Witness ==
    /\ q_pc = "built"
    /\ where # <<>>
    /\ Len(what) = 2
    /\ HasStar(what[1])
    /\ ~HasStar(what[2])
    /\ Contains(query, S_AND)

====
